---------------------------- MODULE Spec2Model ----------------------------
(***************************************************************************)
(* Conversation-state protocol of the assistive vision pipeline:           *)
(*   - src/main.py                the desktop client (key loop, history)   *)
(*   - src/mobile-git-version.py  the Flask endpoint and the Gemini adapter*)
(*   - src/phone_app_client.py    the scripted two-turn phone client       *)
(*                                                                         *)
(* Texts are sequences of one-character strings.  The long prompt          *)
(* literals are abbreviated to one letter each; the characters that JSON   *)
(* must escape (quote, backslash, newline) are kept.                       *)
(***************************************************************************)
EXTENDS Naturals, Sequences, FiniteSets, TLC

VARIABLES current_mode_key, chat_history, ev, phone_pc, history1, handling

vars == <<current_mode_key, chat_history, ev, phone_pc, history1, handling>>

-----------------------------------------------------------------------------
(* Bounds of the model *)

\* follow-up turns modelled per conversation (the code has no limit)
MaxFollowUps == 1

\* clients whose requests the server handles at the same time
NumClients == 2

-----------------------------------------------------------------------------
(* Python values *)

\* Python's None and a Python list, for a variable that holds either
None == [none |-> TRUE, list |-> <<>>]
List(s) == [none |-> FALSE, list |-> s]

\* Python truthiness of None / list: `not h`
Falsy(h) == h.none \/ h.list = <<>>

\* v bound once as a value in F: a local definition that is computed once
Eval(v, F(_)) == CHOOSE y \in {F(x) : x \in {v}} : TRUE

QUOTE == "\""
BSLASH == "\\"
NEWLINE == "\n"

-----------------------------------------------------------------------------
(* JSON text of a history: json.dumps / jsonify and json.loads.             *)
(* A turn {"role": r, "parts": [text (, image)]} is written                 *)
(*   { r "text" p }   with r in {u, m} and p in {i, t}                       *)
(* and a history is  [ turn , turn ... ].                                   *)

\* variant: the backslash is written unescaped
RECURSIVE EscapeText_rawBackslash(_)
EscapeText_rawBackslash(s) ==
    IF s = <<>> THEN <<>>
    ELSE LET c == Head(s) IN
         (IF c = QUOTE THEN <<BSLASH, QUOTE>>
          ELSE IF c = NEWLINE THEN <<BSLASH, "n">>
          ELSE <<c>>) \o EscapeText_rawBackslash(Tail(s))

RECURSIVE EscapeText(_)
EscapeText(s) ==
    IF s = <<>> THEN <<>>
    ELSE LET c == Head(s) IN
         (IF c = QUOTE THEN <<BSLASH, QUOTE>>
          ELSE IF c = BSLASH THEN <<BSLASH, BSLASH>>
          ELSE IF c = NEWLINE THEN <<BSLASH, "n">>
          ELSE <<c>>) \o EscapeText(Tail(s))

DumpTurn(t) ==
    <<"{", IF t.role = "user" THEN "u" ELSE "m", QUOTE>>
        \o EscapeText(t.text)
        \o <<QUOTE, IF t.img THEN "i" ELSE "t", "}">>

RECURSIVE DumpTurns(_)
DumpTurns(h) ==
    IF h = <<>> THEN <<>>
    ELSE IF Len(h) = 1 THEN DumpTurn(h[1])
    ELSE DumpTurn(h[1]) \o <<",">> \o DumpTurns(Tail(h))

\* json.dumps(history) of a list of turns
json_dumps(h) == <<"[">> \o DumpTurns(h) \o <<"]">>

ParseFail == [ok |-> FALSE, val |-> <<>>, next |-> 0]

\* the characters of a JSON string from position i up to its closing quote
RECURSIVE ReadChars(_, _, _)
ReadChars(w, i, acc) ==
    IF i > Len(w) THEN ParseFail
    ELSE IF w[i] = QUOTE THEN [ok |-> TRUE, val |-> acc, next |-> i + 1]
    ELSE IF w[i] = BSLASH THEN
        IF i + 1 > Len(w) THEN ParseFail
        ELSE IF w[i + 1] = QUOTE THEN ReadChars(w, i + 2, Append(acc, QUOTE))
        ELSE IF w[i + 1] = BSLASH THEN ReadChars(w, i + 2, Append(acc, BSLASH))
        ELSE IF w[i + 1] = "n" THEN ReadChars(w, i + 2, Append(acc, NEWLINE))
        ELSE ParseFail
    ELSE IF w[i] = NEWLINE THEN ParseFail
    ELSE ReadChars(w, i + 1, Append(acc, w[i]))

\* one turn starting at position i
ParseTurn(w, i) ==
    IF i + 2 > Len(w) \/ w[i] # "{" \/ w[i + 1] \notin {"u", "m"} \/ w[i + 2] # QUOTE
    THEN ParseFail
    ELSE Eval(ReadChars(w, i + 3, <<>>), LAMBDA s :
         IF ~s.ok THEN ParseFail
         ELSE IF s.next + 1 > Len(w) \/ w[s.next] \notin {"i", "t"} \/ w[s.next + 1] # "}"
         THEN ParseFail
         ELSE [ok |-> TRUE,
               val |-> [role |-> IF w[i + 1] = "u" THEN "user" ELSE "model",
                        text |-> s.val,
                        img |-> w[s.next] = "i"],
               next |-> s.next + 2])

\* the turns from position i to the closing bracket, which must end the text
RECURSIVE ParseTurns(_, _, _)
ParseTurns(w, i, acc) ==
    Eval(ParseTurn(w, i), LAMBDA t :
    IF ~t.ok THEN ParseFail
    ELSE IF t.next > Len(w) THEN ParseFail
    ELSE IF w[t.next] = "]" THEN
        IF t.next = Len(w) THEN [ok |-> TRUE, val |-> Append(acc, t.val), next |-> t.next + 1]
        ELSE ParseFail
    ELSE IF w[t.next] = "," THEN ParseTurns(w, t.next + 1, Append(acc, t.val))
    ELSE ParseFail)

\* json.loads(text): ok = FALSE stands for json.JSONDecodeError
json_loads(text) ==
    Eval(text, LAMBDA w :
    IF Len(w) < 2 \/ w[1] # "[" THEN ParseFail
    ELSE IF w[2] = "]" THEN
        IF Len(w) = 2 THEN [ok |-> TRUE, val |-> <<>>, next |-> 3] ELSE ParseFail
    ELSE ParseTurns(w, 2, <<>>))

-----------------------------------------------------------------------------
(* mobile-git-version.py: the Inference Session Adapter *)

Turn(role, text, img) == [role |-> role, text |-> text, img |-> img]

\* the prompts table, each literal abbreviated to one letter
prompts(mode) ==
    IF mode = "street" THEN <<"S">>
    ELSE IF mode = "kitchen" THEN <<"K">>
    ELSE IF mode = "general" THEN <<"G">>
    ELSE <<>>

\* variant: prompts[mode], without the default
base_prompt_noDefault(mode) == prompts(mode)

\* prompts.get(mode, prompts["general"])
base_prompt(mode) ==
    IF mode \in {"street", "kitchen", "general"} THEN prompts(mode) ELSE prompts("general")

\* f"{base_prompt}\nUser's question: \"{user_question}\""
final_prompt(mode, user_question) ==
    base_prompt(mode) \o <<NEWLINE, QUOTE>> \o user_question \o <<QUOTE>>

GeminiErrorText == <<"I could not connect to Gemini or process the image.">>

\* the except branch: a text error and an empty history
AdapterFailure(sends) ==
    [failed |-> TRUE, result |-> GeminiErrorText, history |-> <<>>, sends |-> sends,
     prompt |-> <<>>]

\* variant: the session is started without the prior turns
start_chat_empty(history) == <<>>

\* model.start_chat(history=history or []): the turns the session starts with
start_chat(history) == IF Falsy(history) THEN <<>> ELSE history.list

\* chat.send_message on a session started with `prior`: the session's history
\* afterwards holds the prior turns, the user turn and the model's answer turn
send_message(prior, userTurn, answer) ==
    prior \o <<userTurn, Turn("model", answer, FALSE)>>

\* variant: the follow-up question is wrapped in the mode prompt again
FollowUpTurn_prompted(mode, user_question) ==
    Turn("user", final_prompt(mode, user_question), FALSE)

\* variant: the follow-up turn carries the image again
FollowUpTurn_withImage(mode, user_question) == Turn("user", user_question, TRUE)

\* line 79, chat.send_message(user_question): the user turn of a follow-up
FollowUpTurn(mode, user_question) == Turn("user", user_question, FALSE)

\* line 76, chat.send_message([final_prompt, img]): the user turn of a first turn
FirstTurn(mode, user_question) == Turn("user", final_prompt(mode, user_question), TRUE)

\* analyze_image(image_bytes, user_question, mode, history) with the outcome of
\* the model service: model.ok = FALSE is any exception raised by the service
\* (GenerativeModel, start_chat, send_message or response.text);
\* image_bytes is "none" (None), "empty" (b""), "good" or "bad" (Image.open raises)
mobile_analyze_image(image_bytes, user_question, mode, history, model) ==
    IF Falsy(history) THEN
        IF image_bytes \in {"none", "empty"} THEN AdapterFailure(0)
        ELSE IF image_bytes = "bad" THEN AdapterFailure(0)
        ELSE IF ~model.ok THEN AdapterFailure(1)
        ELSE [failed |-> FALSE, result |-> model.text,
              history |-> send_message(start_chat(history),
                              FirstTurn(mode, user_question), model.text),
              sends |-> 1,
              prompt |-> FirstTurn(mode, user_question).text]
    ELSE
        IF ~model.ok THEN AdapterFailure(1)
        ELSE [failed |-> FALSE, result |-> model.text,
              history |-> send_message(start_chat(history),
                              FollowUpTurn(mode, user_question), model.text),
              sends |-> 1,
              prompt |-> FollowUpTurn(mode, user_question).text]

-----------------------------------------------------------------------------
(* mobile-git-version.py: the Request Protocol Handler *)

\* a multipart/form-data request; an absent field has its has* flag FALSE
Request(hasQuestion, question, hasMode, mode, hasHistory, history_str, image) ==
    [hasQuestion |-> hasQuestion, question |-> question,
     hasMode |-> hasMode, mode |-> mode,
     hasHistory |-> hasHistory, history_str |-> history_str,
     image |-> image]

NoCall ==
    [called |-> FALSE, image_bytes |-> "none", question |-> <<>>, mode |-> "",
     history |-> None, sends |-> 0, prompt |-> <<>>, failed |-> FALSE,
     result |-> <<>>, returned |-> <<>>]

\* raised = TRUE: the exception left handle_analysis uncaught (the framework
\* answers it with its own 500 page, which is not a JSON body of the handler)
Response(status, raised, error, result, history) ==
    [status |-> status, raised |-> raised, error |-> error, result |-> result,
     history |-> history]

\* variant: an adapter failure is answered with the generic 500
RespondWith_failureIs500(out, encOK) ==
    IF out.failed \/ (out.history # <<>> /\ ~encOK)
    THEN [status |-> 500, raised |-> FALSE, error |-> "An internal error occurred.",
          result |-> <<>>, history |-> <<>>]
    ELSE [status |-> 200, raised |-> FALSE, error |-> "", result |-> out.result,
          history |-> json_dumps(out.history)]

\* the "history" member of the body jsonify writes
jsonify(updated_history) == json_dumps(updated_history)

\* return jsonify({"result": result, "history": updated_history}) inside the
\* try, and the except branch around it: whether the provider's turn objects
\* can be encoded is not decided by this repository, so encOK is an input; an
\* empty list and a text always encode
RespondWith(out, encOK) ==
    IF out.history # <<>> /\ ~encOK
    THEN Response(500, FALSE, "An internal error occurred.", <<>>, <<>>)
    ELSE Response(200, FALSE, "", out.result, jsonify(out.history))

\* one call of the adapter: its arguments, whether it took the except branch,
\* how often it called the model, the prompt it sent, and what it returned
CallRecord(image_bytes, question, mode, history, out) ==
    [called |-> TRUE, image_bytes |-> image_bytes, question |-> question, mode |-> mode,
     history |-> history, sends |-> out.sends, prompt |-> out.prompt,
     failed |-> out.failed, result |-> out.result, returned |-> out.history]

\* variant: an attached image starts a conversation whatever the history
IsNewConversation_imageFirst(req, history) == Falsy(history) \/ req.image # "none"

\* variant: only an absent history starts a conversation
IsNewConversation_noneOnly(req, history) == history.none

\* line 110, `if not history`: the request starts a conversation
IsNewConversation(req, history) == Falsy(history)

\* line 111, `'image' not in request.files`
MissingImage(req) == req.image = "none"

\* line 100, `'question' not in request.form`
MissingQuestion(req) == ~req.hasQuestion

\* variant: no default for the mode
FormMode_noDefault(req) == req.mode

\* request.form.get('mode', 'general')
FormMode(req) == IF req.hasMode THEN req.mode ELSE "general"

\* handle_analysis(): the response and the adapter call it made
handle_analysis(req, model, encOK) ==
    IF MissingQuestion(req)
    THEN [resp |-> Response(400, FALSE, "No question provided.", <<>>, <<>>),
          call |-> NoCall]
    ELSE
    LET question == req.question
        mode == FormMode(req)
        truthy == req.hasHistory /\ req.history_str # <<>>
    IN  Eval(IF truthy THEN json_loads(req.history_str) ELSE ParseFail, LAMBDA parsed :
        IF truthy /\ ~parsed.ok
        THEN [resp |-> Response(500, TRUE, "", <<>>, <<>>), call |-> NoCall]
        ELSE
        LET history == IF truthy THEN List(parsed.val) ELSE None IN
        IF IsNewConversation(req, history) THEN
            IF MissingImage(req)
            THEN [resp |-> Response(400, FALSE,
                              "No image file provided for a new conversation.", <<>>, <<>>),
                  call |-> NoCall]
            ELSE Eval(mobile_analyze_image(req.image, question, mode, None, model),
                      LAMBDA out :
                      [resp |-> RespondWith(out, encOK),
                       call |-> CallRecord(req.image, question, mode, None, out)])
        ELSE Eval(mobile_analyze_image("none", question, mode, history, model),
                  LAMBDA out :
                  [resp |-> RespondWith(out, encOK),
                   call |-> CallRecord("none", question, mode, history, out)]))

-----------------------------------------------------------------------------
(* Inputs *)

\* what listen_to_user() can return besides ""
Questions == {<<"a">>, <<QUOTE, BSLASH>>}

\* answers of the model service
Answers == {<<"b">>, <<BSLASH, "n">>}

ModelOutcomes ==
    {[ok |-> FALSE, text |-> <<>>]} \cup {[ok |-> TRUE, text |-> a] : a \in Answers}

\* what can happen to one request: it is not delivered, or it is handled with
\* some outcome of the model service and of the response encoding
Outcomes ==
    {[delivered |-> FALSE, model |-> [ok |-> FALSE, text |-> <<>>], encOK |-> TRUE]}
    \cup {[delivered |-> TRUE, model |-> m, encOK |-> TRUE] : m \in ModelOutcomes}
    \cup {[delivered |-> TRUE, model |-> [ok |-> TRUE, text |-> <<"b">>], encOK |-> FALSE]}

-----------------------------------------------------------------------------
(* main.py: the client *)

modes(key) == IF key = "1" THEN "general" ELSE IF key = "2" THEN "street" ELSE "kitchen"

ModeKeys == {"1", "2", "3"}

ApiErrorText == <<"Could not connect to the local API server. Is mobile.py running?">>
UnexpectedErrorText == <<"An unexpected error occurred">>

NoRequest == Request(FALSE, <<>>, FALSE, "", FALSE, <<>>, "none")
NoResponse == Response(0, FALSE, "", <<>>, <<>>)

\* what one request.post met: the request, whether it reached the handler, and
\* what the handler did with it
Exchange(sent, req, handled, resp, call) ==
    [sent |-> sent, req |-> req, handled |-> handled, resp |-> resp, call |-> call]

NoExchange == Exchange(FALSE, NoRequest, FALSE, NoResponse, NoCall)

\* requests.post(API_URL, ...): delivered = FALSE is a connection failure
Post(request, delivered, model, encOK) ==
    Eval(request, LAMBDA req :
    IF ~delivered THEN Exchange(TRUE, req, FALSE, NoResponse, NoCall)
    ELSE Eval(handle_analysis(req, model, encOK), LAMBDA h :
              Exchange(TRUE, req, TRUE, h.resp, h.call)))

\* response.raise_for_status() raises, or the post itself did
RequestException(x) == ~x.handled \/ x.resp.status >= 400

\* variant: the image file is not attached
BuildRequest_noImage(image, user_question, mode, history) ==
    IF Falsy(history)
    THEN Request(TRUE, user_question, TRUE, mode, FALSE, <<>>, "none")
    ELSE Request(TRUE, user_question, TRUE, mode, TRUE, json_dumps(history.list), "none")

\* variant: the captured file is attached to every request
BuildRequest_alwaysImage(image, user_question, mode, history) ==
    IF Falsy(history)
    THEN Request(TRUE, user_question, TRUE, mode, FALSE, <<>>, image)
    ELSE Request(TRUE, user_question, TRUE, mode, TRUE, json_dumps(history.list), "good")

\* payload and files of lines 131-146
BuildRequest(image, user_question, mode, history) ==
    IF Falsy(history)
    THEN Request(TRUE, user_question, TRUE, mode, FALSE, <<>>, image)
    ELSE Request(TRUE, user_question, TRUE, mode, TRUE, json_dumps(history.list), "none")

\* variant: the history is dropped when the request fails
OnRequestException_drop(history) == None

\* line 163, `return error_message, history`: the old history on error
OnRequestException(history) == history

\* variant: the client keeps only the last exchange of the history it got
response_history_lastTwo(resp) ==
    Eval(json_loads(resp.history).val, LAMBDA h :
         List(IF Len(h) > 2 THEN SubSeq(h, Len(h) - 1, Len(h)) ELSE h))

\* data = response.json(); data.get("history", [])
response_history(resp) == List(json_loads(resp.history).val)

\* analyze_image(image_path, user_question, mode, history) of main.py;
\* image is "none" when the path does not exist, else the kind of file there
main_analyze_image(image, user_question, mode, history, delivered, model, encOK) ==
    IF Falsy(history) /\ image = "none"
    THEN [result |-> UnexpectedErrorText, history |-> history, x |-> NoExchange]
    ELSE
    Eval(Post(BuildRequest(image, user_question, mode, history), delivered, model, encOK),
         LAMBDA x :
        IF RequestException(x)
        THEN [result |-> ApiErrorText, history |-> OnRequestException(history), x |-> x]
        ELSE [result |-> x.resp.result,
              history |-> response_history(x.resp),
              x |-> x])

\* the requests the server is handling, one per client: the locals of
\* handle_analysis and of the analyze_image it calls (pc is the position in
\* the code; overlapped tells that another call had created its session last
\* when this one sent its message)
Frame(pc, req, history, image_bytes, chat, model, out, encOK, overlapped, resp) ==
    [pc |-> pc, req |-> req, history |-> history, image_bytes |-> image_bytes,
     chat |-> chat, model |-> model, out |-> out, encOK |-> encOK,
     overlapped |-> overlapped, resp |-> resp]

NoModel == [ok |-> FALSE, text |-> <<>>]

NoOut == [failed |-> FALSE, result |-> <<>>, history |-> <<>>, sends |-> 0, prompt |-> <<>>]

\* no request of this client is being handled
NoFrame ==
    Frame("idle", NoRequest, None, "none", <<>>, NoModel, NoOut, TRUE, FALSE, NoResponse)

Clients == 1..NumClients

\* the last step taken, for the properties: the operation, the key pressed, the
\* question heard, the exchange made, and the stored history and mode key the
\* client had before the step
Event(op, key, question, x) ==
    [op |-> op, key |-> key, question |-> question, x |-> x,
     pre |-> chat_history, preKey |-> current_mode_key]

Init ==
    /\ current_mode_key = "1"
    /\ chat_history = None
    /\ ev = [op |-> "start", key |-> "", question |-> <<>>, x |-> NoExchange,
             pre |-> None, preKey |-> "1"]
    /\ phone_pc = "start"
    /\ history1 = None
    /\ handling = [call |-> [c \in Clients |-> NoFrame], latest |-> 0]

\* variant: the history survives a mode change
SwitchMode_keepsHistory(key) ==
    /\ key \in ModeKeys
    /\ current_mode_key' = key
    /\ UNCHANGED chat_history
    /\ ev' = Event("switchMode", key, <<>>, NoExchange)
    /\ UNCHANGED <<phone_pc, history1, handling>>

\* a key in modes: lines 204-212
SwitchMode(key) ==
    /\ key \in ModeKeys
    /\ IF current_mode_key # key
       THEN /\ current_mode_key' = key
            /\ chat_history' = None
       ELSE UNCHANGED <<current_mode_key, chat_history>>
    /\ ev' = Event("switchMode", key, <<>>, NoExchange)
    /\ UNCHANGED <<phone_pc, history1, handling>>

\* variant: the history is discarded only once a question was heard
NewTopic_resetAfterListen(question, image, delivered, model, encOK) ==
    /\ question \in Questions \cup {<<>>}
    /\ image \in {"none", "good", "bad"}
    /\ IF question # <<>>
       THEN \E r \in {main_analyze_image(image, question, modes(current_mode_key), None,
                                          delivered, model, encOK)} :
               /\ chat_history' = r.history
               /\ ev' = Event("newTopic", " ", question, r.x)
       ELSE /\ UNCHANGED chat_history
            /\ ev' = Event("newTopic", " ", question, NoExchange)
    /\ UNCHANGED <<current_mode_key, phone_pc, history1, handling>>

\* SPACE: lines 214-229
NewTopic(question, image, delivered, model, encOK) ==
    /\ question \in Questions \cup {<<>>}
    /\ image \in {"none", "good", "bad"}
    /\ IF question # <<>>
       THEN \E r \in {main_analyze_image(image, question, modes(current_mode_key), None,
                                          delivered, model, encOK)} :
               /\ chat_history' = r.history
               /\ ev' = Event("newTopic", " ", question, r.x)
       ELSE /\ chat_history' = None
            /\ ev' = Event("newTopic", " ", question, NoExchange)
    /\ UNCHANGED <<current_mode_key, phone_pc, history1, handling>>

\* the turns of a stored history
TurnsOf(h) == IF h.none THEN 0 ELSE Len(h.list)

\* variant: 'f' without a conversation asks a new question about the frame
FollowUp_startsNew(question, delivered, model, encOK) ==
    /\ question \in Questions \cup {<<>>}
    /\ TurnsOf(chat_history) < 2 + 2 * MaxFollowUps
    /\ IF question # <<>>
       THEN \E r \in {main_analyze_image(IF Falsy(chat_history) THEN "good" ELSE "none",
                                          question, modes(current_mode_key),
                                          chat_history, delivered, model, encOK)} :
               /\ chat_history' = r.history
               /\ ev' = Event("followUp", "f", question, r.x)
       ELSE /\ UNCHANGED chat_history
            /\ ev' = Event("followUp", "f", question, NoExchange)
    /\ UNCHANGED <<current_mode_key, phone_pc, history1, handling>>

\* variant: 'f' sends whatever the listener returned, empty text included
FollowUp_asksAnyway(question, delivered, model, encOK) ==
    /\ question \in Questions \cup {<<>>}
    /\ TurnsOf(chat_history) < 2 + 2 * MaxFollowUps
    /\ IF Falsy(chat_history)
       THEN /\ UNCHANGED chat_history
            /\ ev' = Event("followUp", "f", <<>>, NoExchange)
       ELSE \E r \in {main_analyze_image("none", question, modes(current_mode_key),
                                          chat_history, delivered, model, encOK)} :
               /\ chat_history' = r.history
               /\ ev' = Event("followUp", "f", question, r.x)
    /\ UNCHANGED <<current_mode_key, phone_pc, history1, handling>>

\* 'f': lines 231-249
FollowUp(question, delivered, model, encOK) ==
    /\ question \in Questions \cup {<<>>}
    /\ TurnsOf(chat_history) < 2 + 2 * MaxFollowUps
    /\ IF Falsy(chat_history)
       THEN /\ UNCHANGED chat_history
            /\ ev' = Event("followUp", "f", <<>>, NoExchange)
       ELSE IF question # <<>>
       THEN \E r \in {main_analyze_image("none", question, modes(current_mode_key),
                                          chat_history, delivered, model, encOK)} :
               /\ chat_history' = r.history
               /\ ev' = Event("followUp", "f", question, r.x)
       ELSE /\ UNCHANGED chat_history
            /\ ev' = Event("followUp", "f", question, NoExchange)
    /\ UNCHANGED <<current_mode_key, phone_pc, history1, handling>>

-----------------------------------------------------------------------------
(* phone_app_client.py: run_phone_simulation *)

question1 == <<"w">>
question2 == <<"c">>

\* the first turn, lines 25-55
PhoneFirstTurn(imageExists, delivered, model, encOK) ==
    /\ phone_pc = "start"
    /\ IF ~imageExists
       THEN /\ phone_pc' = "done"
            /\ history1' = None
            /\ ev' = Event("phone1", "", question1, NoExchange)
       ELSE \E x \in {Post(Request(TRUE, question1, TRUE, "general", FALSE, <<>>, "good"),
                            delivered, model, encOK)} :
            \E h \in {IF RequestException(x) THEN None
                      ELSE response_history(x.resp)} :
               /\ ev' = Event("phone1", "", question1, x)
               /\ IF Falsy(h)
                  THEN phone_pc' = "done" /\ history1' = None
                  ELSE phone_pc' = "turn2" /\ history1' = h
    /\ UNCHANGED <<current_mode_key, chat_history, handling>>

\* the second turn, lines 57-83
PhoneFollowUp(delivered, model, encOK) ==
    /\ phone_pc = "turn2"
    /\ ev' = Event("phone2", "", question2,
                   Post(Request(TRUE, question2, TRUE, "general", TRUE,
                                json_dumps(history1.list), "none"),
                        delivered, model, encOK))
    /\ phone_pc' = "done"
    /\ UNCHANGED <<current_mode_key, chat_history, history1, handling>>

-----------------------------------------------------------------------------
(* Any other caller of POST /analyze *)

\* a history the adapter returns for a first turn
SeedHistories ==
    {send_message(<<>>, Turn("user", final_prompt("general", q), TRUE), a) :
        q \in Questions, a \in Answers}

\* history fields: "", a serialized empty list, texts that are no JSON, and
\* serialized histories
HistoryFields ==
    {<<>>, <<"[", "]">>, <<"x">>, <<"[", "{", "u", QUOTE, "a">>}
    \cup {json_dumps(h) : h \in SeedHistories}

RawRequests ==
    {Request(hq, <<"a">>, hm, IF hm THEN m ELSE "", hh, IF hh THEN hs ELSE <<>>, im) :
        hq \in BOOLEAN, hm \in BOOLEAN, m \in {"street", "zzz"},
        hh \in BOOLEAN, hs \in HistoryFields, im \in {"none", "empty", "good", "bad"}}

Analyze(req, model, encOK) ==
    /\ req \in RawRequests
    /\ ev' = Event("analyze", "", req.question, Post(req, TRUE, model, encOK))
    /\ UNCHANGED <<current_mode_key, chat_history, phone_pc, history1, handling>>

-----------------------------------------------------------------------------
(* Specifications *)

ClientNext ==
    \/ \E key \in ModeKeys : SwitchMode(key)
    \/ \E q \in Questions \cup {<<>>}, im \in {"none", "good", "bad"}, o \in Outcomes :
          NewTopic(q, im, o.delivered, o.model, o.encOK)
    \/ \E q \in Questions \cup {<<>>}, o \in Outcomes :
          FollowUp(q, o.delivered, o.model, o.encOK)
    \/ \E ie \in BOOLEAN, o \in Outcomes : PhoneFirstTurn(ie, o.delivered, o.model, o.encOK)
    \/ \E o \in Outcomes : PhoneFollowUp(o.delivered, o.model, o.encOK)

\* the desktop client and the phone client against the server
Spec == Init /\ [][ClientNext]_vars

HandlerNext ==
    \E req \in RawRequests, o \in Outcomes : o.delivered /\ Analyze(req, o.model, o.encOK)

\* the handler under every shape of request
SpecHandler == Init /\ [][HandlerNext]_vars

-----------------------------------------------------------------------------
(* The adapter called on its own *)

AdapterHistories ==
    {None, List(<<>>)} \cup {List(h) : h \in SeedHistories}
    \cup {List(send_message(send_message(<<>>, FirstTurn("street", <<"a">>), <<"b">>),
                            Turn("user", <<"a">>, FALSE), <<BSLASH, "n">>))}

\* the keys of the prompts table
RegisteredModes == {"general", "street", "kitchen"}

\* mode strings a caller can pass: the registered ones and some others
AdapterModes == RegisteredModes \cup {"zzz", "", "General"}

Converse(image_bytes, question, mode, history, model) ==
    /\ image_bytes \in {"none", "empty", "good", "bad"}
    /\ question \in Questions
    /\ mode \in AdapterModes
    /\ history \in AdapterHistories
    /\ model \in ModelOutcomes
    /\ \E out \in {mobile_analyze_image(image_bytes, question, mode, history, model)} :
          ev' = Event("converse", "", question,
                      Exchange(FALSE, NoRequest, FALSE, NoResponse,
                               CallRecord(image_bytes, question, mode, history, out)))
    /\ UNCHANGED <<current_mode_key, chat_history, phone_pc, history1, handling>>

AdapterNext ==
    \E im \in {"none", "empty", "good", "bad"}, q \in Questions,
       mode \in AdapterModes, h \in AdapterHistories,
       m \in ModelOutcomes : Converse(im, q, mode, h, m)

\* the adapter under every shape of call
SpecAdapter == Init /\ [][AdapterNext]_vars

-----------------------------------------------------------------------------
(* main.py: speak and the audio cues *)

\* the letters of the texts spoken here, lower case and upper case
LetterPairs ==
    {<<"w", "W">>, <<"a", "A">>, <<"r", "R">>, <<"n", "N">>, <<"i", "I">>, <<"g", "G">>,
     <<"c", "C">>, <<"u", "U">>, <<"t", "T">>, <<"o", "O">>, <<"d", "D">>, <<"e", "E">>,
     <<"h", "H">>, <<"l", "L">>}

\* str.lower() on one character
LowerChar(c) ==
    IF \E p \in LetterPairs : p[2] = c
    THEN (CHOOSE p \in LetterPairs : p[2] = c)[1]
    ELSE c

\* variant: no case folding
lower_identity(text) == text

\* text.lower()
lower(text) == [i \in 1..Len(text) |-> LowerChar(text[i])]

\* str.startswith(prefix)
startswith(text, prefix) ==
    Len(text) >= Len(prefix) /\ SubSeq(text, 1, Len(prefix)) = prefix

\* play_sound(sound_file): the cue asked for, whether or not the file is there
play_sound(sound_file) == <<sound_file>>

play_warning_sound == play_sound("warning.mp3")

\* speak(text), lines 54-60: the cues it triggers and whether it goes on to
\* speak the text
speak(text) ==
    IF text = <<>> THEN [cues |-> <<>>, spoken |-> FALSE]
    ELSE Eval(lower(text), LAMBDA text_lower :
         [cues |-> IF \/ startswith(text_lower, <<"w", "a", "r", "n", "i", "n", "g", ":">>)
                      \/ startswith(text_lower, <<"c", "a", "u", "t", "i", "o", "n", ":">>)
                      \/ startswith(text_lower, <<"d", "a", "n", "g", "e", "r", ":">>)
                   THEN play_warning_sound ELSE <<>>,
          spoken |-> TRUE])

\* the answers spoken: an optional leading blank, a word in one of three
\* spellings, a separator and a tail
SpeakWords == {<<"w", "a", "r", "n", "i", "n", "g">>,
     <<"c", "a", "u", "t", "i", "o", "n">>,
     <<"d", "a", "n", "g", "e", "r">>,
     <<"w", "a", "r", "n">>,
     <<"h", "e", "l", "l", "o">>, <<>>}

UpperChar(c) ==
    IF \E p \in LetterPairs : p[1] = c
    THEN (CHOOSE p \in LetterPairs : p[1] = c)[2]
    ELSE c

Spelled(word, style) ==
    [i \in 1..Len(word) |->
        IF style = "upper" \/ (style = "capital" /\ i = 1)
        THEN UpperChar(word[i]) ELSE word[i]]

SpeakParts ==
    [lead : {<<>>, <<" ">>}, word : SpeakWords, style : {"lower", "capital", "upper"},
     sep : {<<>>, <<":">>, <<" ", ":">>}, tail : {<<>>, <<" ", "x">>}]

TextOf(p) == p.lead \o Spelled(p.word, p.style) \o p.sep \o p.tail

Speak(p) ==
    /\ p \in SpeakParts
    /\ \E r \in {speak(TextOf(p))} :
          ev' = [op |-> "speak", parts |-> p, text |-> TextOf(p),
                 cues |-> r.cues, spoken |-> r.spoken]
    /\ UNCHANGED <<current_mode_key, chat_history, phone_pc, history1, handling>>

SpeakNext == \E p \in SpeakParts : Speak(p)

\* speak under every answer text
SpecSpeak == Init /\ [][SpeakNext]_vars

-----------------------------------------------------------------------------
(* mobile-git-version.py: requests of several clients handled at once *)

\* a first turn, a follow-up, a follow-up with a malformed history, a first
\* turn without image and a request without question
ConcurrentRequests ==
    {Request(TRUE, <<"a">>, TRUE, "street", FALSE, <<>>, "good"),
     Request(TRUE, <<QUOTE, BSLASH>>, FALSE, "", TRUE,
             json_dumps(send_message(<<>>, FirstTurn("general", <<"a">>), <<"b">>)),
             "none"),
     Request(TRUE, <<"a">>, FALSE, "", TRUE, <<"x">>, "none"),
     Request(TRUE, <<"a">>, FALSE, "", FALSE, <<>>, "none"),
     Request(FALSE, <<>>, FALSE, "", FALSE, <<>>, "good")}

\* handle_analysis returned (or raised) before calling the adapter
Returned(req, resp) ==
    Frame("done", req, None, "none", <<>>, NoModel, NoOut, TRUE, FALSE, resp)

\* handle_analysis is about to call analyze_image with these arguments
Calling(req, image_bytes, history) ==
    Frame("called", req, history, image_bytes, <<>>, NoModel, NoOut, TRUE, FALSE,
          NoResponse)

\* lines 100-115 of handle_analysis: the checks, the decoding of the history
\* and the choice of the adapter's arguments
Received(req) ==
    IF MissingQuestion(req)
    THEN Returned(req, Response(400, FALSE, "No question provided.", <<>>, <<>>))
    ELSE
    LET truthy == req.hasHistory /\ req.history_str # <<>>
    IN  Eval(IF truthy THEN json_loads(req.history_str) ELSE ParseFail, LAMBDA parsed :
        IF truthy /\ ~parsed.ok
        THEN Returned(req, Response(500, TRUE, "", <<>>, <<>>))
        ELSE
        LET history == IF truthy THEN List(parsed.val) ELSE None IN
        IF IsNewConversation(req, history) THEN
            IF MissingImage(req)
            THEN Returned(req, Response(400, FALSE,
                              "No image file provided for a new conversation.", <<>>, <<>>))
            ELSE Calling(req, req.image, None)
        ELSE Calling(req, "none", history))

\* variant: the session is a module-level variable, so a call uses the
\* session that was created last
chat_session_shared(h, c) == h.call[h.latest].chat

\* line 48, `chat = model.start_chat(...)`: the session is a local of the call
chat_session(h, c) == h.call[c].chat

\* lines 52-87 of analyze_image for the call in frame f, on the session
\* `session`, with the outcome of the model service
SendOn(f, session, model) ==
    IF Falsy(f.history) THEN
        IF f.image_bytes \in {"none", "empty"} THEN AdapterFailure(0)
        ELSE IF f.image_bytes = "bad" THEN AdapterFailure(0)
        ELSE IF ~model.ok THEN AdapterFailure(1)
        ELSE [failed |-> FALSE, result |-> model.text,
              history |-> send_message(session,
                              FirstTurn(FormMode(f.req), f.req.question), model.text),
              sends |-> 1,
              prompt |-> FirstTurn(FormMode(f.req), f.req.question).text]
    ELSE
        IF ~model.ok THEN AdapterFailure(1)
        ELSE [failed |-> FALSE, result |-> model.text,
              history |-> send_message(session,
                              FollowUpTurn(FormMode(f.req), f.req.question), model.text),
              sends |-> 1,
              prompt |-> FollowUpTurn(FormMode(f.req), f.req.question).text]

\* a request arrives and is handled up to the call of the adapter
Receive(c, req) ==
    /\ handling.call[c].pc = "idle"
    /\ req \in ConcurrentRequests
    /\ \E f \in {Received(req)} : handling' = [handling EXCEPT !.call[c] = f]
    /\ UNCHANGED <<current_mode_key, chat_history, ev, phone_pc, history1>>

\* lines 47-48 of analyze_image
StartChat(c) ==
    /\ handling.call[c].pc = "called"
    /\ handling' = [handling EXCEPT !.call[c].pc = "chat",
                                    !.call[c].chat = start_chat(handling.call[c].history),
                                    !.latest = c]
    /\ UNCHANGED <<current_mode_key, chat_history, ev, phone_pc, history1>>

\* lines 52-87 of analyze_image
SendMessage(c, model) ==
    /\ handling.call[c].pc = "chat"
    /\ model \in ModelOutcomes
    /\ \E out \in {SendOn(handling.call[c], chat_session(handling, c), model)} :
          handling' = [handling EXCEPT !.call[c].pc = "answered",
                                       !.call[c].model = model,
                                       !.call[c].out = out,
                                       !.call[c].overlapped = (handling.latest # c)]
    /\ UNCHANGED <<current_mode_key, chat_history, ev, phone_pc, history1>>

\* lines 118/124 and 126-128 of handle_analysis
Respond(c, encOK) ==
    /\ handling.call[c].pc = "answered"
    /\ encOK \in BOOLEAN
    /\ handling' = [handling EXCEPT !.call[c].pc = "done",
                                    !.call[c].encOK = encOK,
                                    !.call[c].resp = RespondWith(handling.call[c].out, encOK)]
    /\ UNCHANGED <<current_mode_key, chat_history, ev, phone_pc, history1>>

\* the response has left the server: the locals of the call are gone
Leave(c) ==
    /\ handling.call[c].pc = "done"
    /\ handling' = [handling EXCEPT !.call[c] = NoFrame]
    /\ UNCHANGED <<current_mode_key, chat_history, ev, phone_pc, history1>>

ConcurrentNext ==
    \E c \in Clients :
        \/ \E req \in ConcurrentRequests : Receive(c, req)
        \/ StartChat(c)
        \/ \E m \in ModelOutcomes : SendMessage(c, m)
        \/ \E e \in BOOLEAN : Respond(c, e)
        \/ Leave(c)

\* the server handling the requests of several clients in any interleaving
SpecConcurrent == Init /\ [][ConcurrentNext]_vars

-----------------------------------------------------------------------------
(* Properties *)

Idle == Falsy(chat_history)
WasIdle == Falsy(ev.pre)

\* the exchange of the last step failed: not delivered, an error status, or
\* the adapter took its except branch
ExchangeFailed == RequestException(ev.x) \/ ev.x.call.failed

\* C1 as stated: after switchMode the client is Idle and the history is
\* discarded, also when the key pressed is the mode already selected
C1_SwitchModeAlwaysIdle ==
    ev.op = "switchMode" => Idle

\* C1 amended: switchMode to a different mode selects it and discards the
\* history; switchMode to the mode already selected changes nothing
C1_SwitchModeResetsOnChange ==
    ev.op = "switchMode" =>
        IF ev.key # ev.preKey
        THEN chat_history = None /\ current_mode_key = ev.key
        ELSE chat_history = ev.pre /\ current_mode_key = ev.preKey

C1_Witness ==
    /\ ev.op = "switchMode" /\ ev.key # ev.preKey
    /\ ~WasIdle /\ chat_history = None

\* C2 as stated: after a followUp from Active that fails in any of the three
\* ways the client is Idle
C2_FailedFollowUpIsIdle ==
    (ev.op = "followUp" /\ ~WasIdle /\ ev.x.sent /\ ExchangeFailed) => Idle

\* C2 amended: a followUp from Active answered 200 with the adapter's failure
\* leaves the client Idle with the empty list; a followUp whose request was not
\* delivered or was answered with an error status leaves the stored history as
\* it was; and what a followUp sends is the stored history, so a kept history
\* is sent again by the next followUp
C2_FailedFollowUp ==
    (ev.op = "followUp" /\ ~WasIdle /\ ev.x.sent) =>
        /\ ev.x.req.hasHistory /\ ev.x.req.history_str = json_dumps(ev.pre.list)
        /\ ExchangeFailed =>
              IF RequestException(ev.x)
              THEN chat_history = ev.pre
              ELSE chat_history = List(<<>>)

C2_Witness ==
    /\ ev.op = "followUp" /\ ~WasIdle /\ ev.x.sent
    /\ ~RequestException(ev.x) /\ ev.x.call.failed
    /\ chat_history = List(<<>>)

\* C3: newTopic with a question sends the image and no history; a response
\* with a non-empty history makes the client Active with exactly that history,
\* and every other outcome leaves it Idle
C3_NewTopic ==
    (ev.op = "newTopic" /\ ev.question # <<>>) =>
        /\ ev.x.sent => (ev.x.req.image # "none" /\ ~ev.x.req.hasHistory)
        /\ IF ev.x.sent /\ ~RequestException(ev.x) /\ ev.x.call.returned # <<>>
           THEN chat_history = List(ev.x.call.returned) /\ ~Idle
           ELSE Idle

C3_Witness ==
    /\ ev.op = "newTopic" /\ ~WasIdle
    /\ ev.x.sent /\ ev.x.resp.status = 200
    /\ ~Idle /\ chat_history # ev.pre /\ Len(chat_history.list) = 2

\* C4: followUp in Idle (None or the empty list) sends nothing and changes
\* nothing
C4_FollowUpInIdle ==
    (ev.op = "followUp" /\ WasIdle) =>
        /\ ~ev.x.sent /\ ~ev.x.handled
        /\ chat_history = ev.pre
        /\ current_mode_key = ev.preKey

C4_Witness ==
    ev.op = "followUp" /\ ev.pre = List(<<>>) /\ chat_history = List(<<>>)

\* C5: a successful adapter call returns the input history plus two turns, a
\* failing one the empty history
C5_TurnGrowth ==
    ev.x.call.called =>
        IF ev.x.call.failed
        THEN ev.x.call.returned = <<>>
        ELSE Len(ev.x.call.returned) = TurnsOf(ev.x.call.history) + 2

C5_Witness ==
    /\ ev.op = "converse" /\ ~ev.x.call.failed
    /\ TurnsOf(ev.x.call.history) = 4 /\ Len(ev.x.call.returned) = 6

SpecErrorText == <<"I could not connect to the model or process the image.">>

\* C6 as stated: an adapter failure is answered 200 with the fixed text
\* "I could not connect to the model or process the image." and an empty
\* history
C6_FailureTextAsSpecified ==
    (ev.op = "analyze" /\ ev.x.call.called /\ ev.x.call.failed) =>
        /\ ev.x.call.result = SpecErrorText /\ ev.x.call.returned = <<>>
        /\ ev.x.resp.status = 200 /\ ~ev.x.resp.raised
        /\ ev.x.resp.result = SpecErrorText /\ ev.x.resp.history = <<"[", "]">>

\* C6 amended: an adapter failure is answered 200 with the fixed text
\* "I could not connect to Gemini or process the image." and an empty history,
\* never as an exception or an error status
C6_FailureIsDegradedAnswer ==
    (ev.op = "analyze" /\ ev.x.call.called /\ ev.x.call.failed) =>
        /\ ev.x.call.result = GeminiErrorText /\ ev.x.call.returned = <<>>
        /\ ev.x.resp.status = 200 /\ ~ev.x.resp.raised
        /\ ev.x.resp.result = GeminiErrorText /\ ev.x.resp.history = <<"[", "]">>

C6_Witness ==
    /\ ev.op = "analyze" /\ ev.x.call.called /\ ev.x.call.failed
    /\ ev.x.call.sends = 1 /\ ev.x.call.history # None
    /\ ev.x.resp.status = 200

\* the history field of the last request is there and is no JSON text
MalformedHistory ==
    /\ ev.x.req.hasHistory /\ ev.x.req.history_str # <<>>
    /\ ~json_loads(ev.x.req.history_str).ok

\* C7: a request with a malformed history is answered with a client error of
\* the handler's own, and the model is not called
C7_MalformedHistoryIsClientError ==
    (ev.op = "analyze" /\ ev.x.req.hasQuestion /\ MalformedHistory) =>
        /\ ev.x.resp.status = 400 /\ ~ev.x.resp.raised
        /\ ~ev.x.call.called /\ ev.x.call.sends = 0

\* the history field of the last request is a serialized non-empty history
HasHistory ==
    /\ ev.x.req.hasHistory
    /\ json_loads(ev.x.req.history_str).ok
    /\ json_loads(ev.x.req.history_str).val # <<>>

\* C8: with a question, image and history together are handled as a follow-up
\* on the history without the image; neither image nor history is rejected
\* with a client error and no model call
C8_ImageXorHistory ==
    (ev.op = "analyze" /\ ev.x.req.hasQuestion) =>
        /\ (ev.x.req.image # "none" /\ HasHistory) =>
              /\ ev.x.call.called
              /\ ev.x.call.history = List(json_loads(ev.x.req.history_str).val)
              /\ ev.x.call.image_bytes = "none"
              /\ ev.x.resp.status # 400 /\ ~ev.x.resp.raised
              /\ ~ev.x.call.failed => ev.x.call.prompt = ev.x.req.question
        /\ (ev.x.req.image = "none" /\ ~ev.x.req.hasHistory) =>
              /\ ev.x.resp.status = 400 /\ ~ev.x.resp.raised
              /\ ~ev.x.call.called /\ ev.x.call.sends = 0

C8_Witness ==
    /\ ev.op = "analyze" /\ ev.x.req.hasQuestion
    /\ ev.x.req.image = "good" /\ HasHistory
    /\ ev.x.resp.status = 200 /\ Len(ev.x.call.returned) = 4

\* C9: without a question the answer is the 400 of the question check whatever
\* the other fields hold, and the model is not called; without a mode the
\* adapter is called with mode general
C9_QuestionFirstModeDefault ==
    ev.op = "analyze" =>
        /\ ~ev.x.req.hasQuestion =>
              /\ ev.x.resp.status = 400 /\ ~ev.x.resp.raised
              /\ ev.x.resp.error = "No question provided."
              /\ ~ev.x.call.called /\ ev.x.call.sends = 0
        /\ (~ev.x.req.hasMode /\ ev.x.call.called) => ev.x.call.mode = "general"

C9_Witness ==
    /\ ev.op = "analyze" /\ ~ev.x.req.hasQuestion
    /\ MalformedHistory /\ ev.x.req.image = "bad" /\ ev.x.req.hasMode
    /\ ev.x.resp.status = 400

\* json.loads(json.dumps(h)) == h
RoundTrip(h) ==
    Eval(json_loads(json_dumps(h)), LAMBDA r : r.ok /\ r.val = h)

\* C10: every stored history survives serialization; the client stores the
\* history the adapter returned, and on a follow-up the adapter receives the
\* history the client stored
C10_HistoryRoundTrip ==
    /\ ~Idle => RoundTrip(chat_history.list)
    /\ phone_pc = "turn2" => RoundTrip(history1.list)
    /\ (ev.op \in {"newTopic", "followUp"} /\ ev.x.handled /\ ev.x.resp.status = 200)
          => chat_history = List(ev.x.call.returned)
    /\ (ev.op = "phone1" /\ phone_pc = "turn2") => history1 = List(ev.x.call.returned)
    /\ (ev.op = "followUp" /\ ev.x.handled)
          => (ev.x.call.called /\ ev.x.call.history = ev.pre)
    /\ (ev.op = "phone2" /\ ev.x.handled)
          => (ev.x.call.called /\ ev.x.call.history = history1)

C10_Witness ==
    /\ ev.op = "followUp" /\ ev.x.handled /\ ev.x.resp.status = 200
    /\ ev.pre.list[1].text = <<"S", NEWLINE, QUOTE, QUOTE, BSLASH, QUOTE>>
    /\ ev.pre.list[2].text = <<BSLASH, "n">>
    /\ Len(chat_history.list) = 4

\* C11: for a mode outside the registered set a first turn reaches the model
\* with the prompt of general around the question
C11_ModeFallback ==
    (ev.op = "converse" /\ ev.x.call.mode \notin RegisteredModes
        /\ Falsy(ev.x.call.history) /\ ev.x.call.image_bytes = "good") =>
        /\ ev.x.call.sends = 1
        /\ ~ev.x.call.failed =>
              /\ ev.x.call.prompt = <<"G", NEWLINE, QUOTE>> \o ev.x.call.question \o <<QUOTE>>
              /\ ev.x.call.returned[1].text = ev.x.call.prompt

C11_Witness ==
    /\ ev.op = "converse" /\ ev.x.call.mode = "General"
    /\ ev.x.call.history = None /\ ~ev.x.call.failed
    /\ ev.x.call.prompt = <<"G", NEWLINE, QUOTE, "a", QUOTE>>

\* the text was built with a warning word, in any spelling, at its very
\* start and directly followed by a colon
BeginsWithWarningWord ==
    /\ ev.parts.lead = <<>> /\ ev.parts.sep = <<":">>
    /\ ev.parts.word \in {<<"w", "a", "r", "n", "i", "n", "g">>,
                          <<"c", "a", "u", "t", "i", "o", "n">>,
                          <<"d", "a", "n", "g", "e", "r">>}

\* C12: speaking an answer that begins with Warning:, Caution: or Danger: in any
\* letter case asks for the warning cue exactly once; any other answer never does
C12_WarningCue ==
    ev.op = "speak" =>
        IF BeginsWithWarningWord
        THEN ev.cues = <<"warning.mp3">>
        ELSE ev.cues = <<>>

C12_Witness ==
    /\ ev.op = "speak" /\ ev.text = <<"C", "A", "U", "T", "I", "O", "N", ":", " ", "x">>
    /\ ev.cues = <<"warning.mp3">> /\ ev.spoken

\* C13: after a successful follow-up the history the client gets back is the
\* history it submitted, unchanged and in order, then the user turn with the
\* question and then the model turn with the answer
C13_AppendOnly ==
    (ev.op = "followUp" /\ ev.x.handled /\ ev.x.resp.status = 200 /\ ~ev.x.call.failed) =>
        /\ Len(chat_history.list) = Len(ev.pre.list) + 2
        /\ SubSeq(chat_history.list, 1, Len(ev.pre.list)) = ev.pre.list
        /\ chat_history.list[Len(ev.pre.list) + 1] =
              [role |-> "user", text |-> ev.question, img |-> FALSE]
        /\ chat_history.list[Len(ev.pre.list) + 2] =
              [role |-> "model", text |-> ev.x.resp.result, img |-> FALSE]

C13_Witness ==
    /\ ev.op = "followUp" /\ ev.x.handled /\ ev.x.resp.status = 200 /\ ~ev.x.call.failed
    /\ Len(ev.pre.list) = 2 /\ Len(chat_history.list) = 4
    /\ ev.question = <<QUOTE, BSLASH>>
    /\ chat_history.list[1] = ev.pre.list[1] /\ chat_history.list[1].img

\* the last step was a request of the desktop client that the handler answered
Answered == ev.op \in {"newTopic", "followUp"} /\ ev.x.handled

\* C14 as stated: the stored history is absent, empty or the value carried by
\* the most recent server response
C14_StoredIsMostRecentResponse ==
    Answered =>
        \/ Idle
        \/ ev.x.resp.status = 200 /\ chat_history = List(ev.x.call.returned)

\* C14 amended: the stored history changes only by being cleared or by being
\* replaced with the history of the 200 response just received (an error
\* status or an undelivered request leaves it as it was), and a follow-up
\* sends exactly the stored history
C14_NeverEdited ==
    /\ chat_history # ev.pre =>
          \/ chat_history = None
          \/ Answered /\ ev.x.resp.status = 200 /\ chat_history = List(ev.x.call.returned)
    /\ (ev.op = "followUp" /\ ev.x.sent) =>
          Eval(json_loads(ev.x.req.history_str), LAMBDA r : r.ok /\ r.val = ev.pre.list)

C14_Witness ==
    /\ ev.op = "followUp" /\ ev.x.handled /\ ev.x.resp.status = 500
    /\ ~Idle /\ chat_history = ev.pre
    /\ json_loads(ev.x.req.history_str).val = ev.pre.list

\* turns alternate user, model from a user turn, in pairs, and only the first
\* one carries an image
WellShaped(h) ==
    /\ Len(h) % 2 = 0
    /\ \A i \in 1..Len(h) :
          /\ h[i].role = (IF i % 2 = 1 THEN "user" ELSE "model")
          /\ h[i].img = (i = 1)

\* C15: every non-empty stored history has even length, alternates user and
\* model turns from a user turn, and carries an image in its first turn only
C15_HistoryShape ==
    /\ ~Idle => WellShaped(chat_history.list)
    /\ ~Falsy(history1) => WellShaped(history1.list)

C15_Witness ==
    /\ ~Idle /\ Len(chat_history.list) = 4
    /\ chat_history.list[1].img /\ ~chat_history.list[3].img
    /\ chat_history.list[3].role = "user"

\* C16: a request of a client carries an image and no history when it starts
\* a conversation, and the stored non-empty history and no image when it
\* continues one; no request goes out without one of the two, so a new
\* conversation without a usable image sends nothing
C16_ImageXorHistorySent ==
    (ev.op \in {"newTopic", "followUp", "phone1", "phone2"} /\ ev.x.sent) =>
        /\ (ev.x.req.image # "none") # ev.x.req.hasHistory
        /\ ev.op \in {"newTopic", "phone1"} =>
              (ev.x.req.image # "none" /\ ~ev.x.req.hasHistory)
        /\ ev.op = "followUp" =>
              /\ ~WasIdle /\ ev.x.req.image = "none" /\ ev.x.req.hasHistory
              /\ ev.x.req.history_str = json_dumps(ev.pre.list)
        /\ ev.op = "phone2" =>
              /\ ev.x.req.image = "none" /\ ev.x.req.hasHistory
              /\ ev.x.req.history_str = json_dumps(history1.list)

C16_Witness ==
    /\ ev.op = "followUp" /\ ev.x.sent /\ ev.x.handled
    /\ ev.x.req.image = "none" /\ ev.x.req.hasHistory
    /\ ev.x.call.history = ev.pre /\ ev.x.resp.status = 200 /\ ev.x.call.failed

\* C18 as stated: a request that passed the question check is never left
\* with an uncaught failure; whatever is raised while its fields are decoded,
\* the adapter is called or the response is encoded becomes the generic 500
\* response, which carries no detail of the exception
C18_FailuresBecomeGeneric500 ==
    (ev.op = "analyze" /\ ev.x.req.hasQuestion) =>
        /\ ~ev.x.resp.raised
        /\ ev.x.resp.status = 500 =>
              /\ ev.x.resp.error = "An internal error occurred."
              /\ ev.x.resp.result = <<>> /\ ev.x.resp.history = <<>>

\* C19: when the listener returns empty text, a new topic and a follow-up
\* send no request, and the follow-up leaves the stored history as it was
C19_NoQuestionNoRequest ==
    (ev.op \in {"newTopic", "followUp"} /\ ev.question = <<>>) =>
        /\ ~ev.x.sent /\ ~ev.x.handled /\ ~ev.x.call.called
        /\ ev.op = "followUp" => chat_history = ev.pre

C19_Witness ==
    /\ ev.op = "followUp" /\ ev.question = <<>> /\ ~WasIdle
    /\ ~ev.x.sent /\ chat_history = ev.pre /\ Len(chat_history.list) = 2

\* C20: a new-topic attempt in which no question is heard ends in Idle with
\* the stored history discarded, also when the client was Active before it
C20_SilentNewTopicEndsIdle ==
    (ev.op = "newTopic" /\ ev.question = <<>>) =>
        /\ chat_history = None
        /\ ~ev.x.sent

C20_Witness ==
    /\ ev.op = "newTopic" /\ ev.question = <<>>
    /\ ~WasIdle /\ Len(ev.pre.list) = 2 /\ chat_history = None

\* C17: in every interleaving of the handling of several clients' requests,
\* the response to a request is the one the handler gives to that request
\* alone with the model's answer to it: it depends on no other request
C17_ResponseOfOwnRequestOnly ==
    \A c \in Clients :
        handling.call[c].pc = "done" =>
            handling.call[c].resp =
                handle_analysis(handling.call[c].req, handling.call[c].model,
                                handling.call[c].encOK).resp

C17_Witness ==
    \E c \in Clients, d \in Clients :
        /\ c # d
        /\ handling.call[c].pc = "done" /\ handling.call[c].overlapped
        /\ handling.call[c].req.hasHistory /\ handling.call[c].resp.status = 200
        /\ Len(json_loads(handling.call[c].resp.history).val) = 4
        /\ handling.call[d].pc = "chat" /\ ~handling.call[d].req.hasHistory

\* the history field is absent, the empty string or a serialized empty list
EmptyHistoryField(req) ==
    ~req.hasHistory \/ req.history_str = <<>> \/ req.history_str = <<"[", "]">>

\* the same request without its history field
WithoutHistory(req) == [req EXCEPT !.hasHistory = FALSE, !.history_str = <<>>]

\* C21: a request whose history field is absent, empty or a serialized empty
\* list is handled as a new conversation, exactly as the same request without
\* the field: without an image it is rejected with the 400 missing-image
\* error and the adapter is not called; with an image the adapter is called
\* with the image and no history, and the turn it sends is the mode prompt
\* with the question
C21_EmptyHistoryIsNewConversation ==
    (ev.op = "analyze" /\ ev.x.req.hasQuestion /\ EmptyHistoryField(ev.x.req)) =>
        /\ ev.x.req.image = "none" =>
              /\ ev.x.resp.status = 400 /\ ~ev.x.resp.raised
              /\ ev.x.resp.error = "No image file provided for a new conversation."
              /\ ~ev.x.call.called
        /\ ev.x.req.image # "none" =>
              /\ ev.x.call.called /\ ev.x.call.history = None
              /\ ev.x.call.image_bytes = ev.x.req.image
              /\ ~ev.x.call.failed =>
                    /\ ev.x.call.prompt =
                          final_prompt(FormMode(ev.x.req), ev.x.req.question)
                    /\ Len(ev.x.call.returned) = 2
                    /\ ev.x.call.returned[1] = FirstTurn(FormMode(ev.x.req), ev.x.req.question)
        /\ \E o \in Outcomes :
              /\ o.delivered
              /\ Eval(handle_analysis(WithoutHistory(ev.x.req), o.model, o.encOK),
                      LAMBDA h : h.resp = ev.x.resp /\ h.call = ev.x.call)

C21_Witness ==
    /\ ev.op = "analyze" /\ ev.x.req.hasQuestion
    /\ ev.x.req.hasHistory /\ ev.x.req.history_str = <<"[", "]">>
    /\ ev.x.req.image = "good" /\ ev.x.req.hasMode /\ ev.x.req.mode = "street"
    /\ ev.x.call.called /\ ~ev.x.call.failed /\ ev.x.call.history = None
    /\ ev.x.call.prompt = final_prompt("street", ev.x.req.question)
    /\ ev.x.resp.status = 200

=============================================================================
